---- MODULE Spec2Model ----
(***************************************************************************)
(* Quizler: the content-script quiz widget (QuizlerWidget), its request    *)
(* path through the background listener, and the pending-result handoff    *)
(* across the auth boundary.                                               *)
(*                                                                         *)
(* React state is modelled by one variable per useState hook.  Discrete    *)
(* UI events (clicks) see fully rendered state; asynchronous continuations *)
(* (promise resolutions, auth notifications) are separate actions.         *)
(***************************************************************************)
EXTENDS Integers, Sequences, FiniteSets, Bags, TLC

(* ----------------------------- bounds ---------------------------------- *)
\* longest questions array a response carries
MaxQuestions == 2
\* saveQuizResult invocations followed in one run
MaxSaves == 3

(* --------------------------- option values ------------------------------ *)
\* a nullable value v is None or Some(v)
None == << >>
Some(v) == << v >>
\* selectedIndex === null
NoSelection == -1
\* supabase session absent
NoSession == "none"
Users == {"u1"}
\* the effect of lines 192-216 has not run yet (before mount effects): no
\* callback is subscribed; completions are numbered from 1
Unsubscribed == Some([score |-> 0, total |-> 0, percentage |-> 0, cid |-> 0])

(* ------------------------------ payloads -------------------------------- *)
\* A QuizItem as far as the widget looks at it: options.length, and
\* correctIndex, a JSON number that need not be an integer (integral = FALSE
\* stands for a number such as 1.5 whose integer part is correctIndex).
QuizItems ==
  { [options |-> 4, correctIndex |-> 1, integral |-> TRUE],
    [options |-> 4, correctIndex |-> 4, integral |-> TRUE],
    [options |-> 4, correctIndex |-> 1, integral |-> FALSE],
    [options |-> 3, correctIndex |-> 1, integral |-> TRUE] }

SeqsUpTo(S, n) == UNION { [1..k -> S] : k \in 0..n }

\* quizzes of 3 and of TOTAL_QUESTIONS questions that satisfy the schema
LongQuizzes ==
  { [k \in 1..n |-> [options |-> 4, correctIndex |-> 1, integral |-> TRUE]] :
      n \in {3, 5} }

\* response bodies: JSON null, or an object with a questions array
Payloads == {None} \cup { Some(qs) : qs \in SeqsUpTo(QuizItems, MaxQuestions) }

\* zod quizItemSchema / quizSchema
quizItemSchema(item) ==
  /\ item.options = 4
  /\ item.integral
  /\ item.correctIndex >= 0
  /\ item.correctIndex <= 3

quizSchema(value) ==
  /\ value # None
  /\ Len(value[1]) >= 1
  /\ \A k \in 1..Len(value[1]) : quizItemSchema(value[1][k])

\* isQuizPayload, part_001:99-104
isQuizPayload(value) ==
  /\ value # None
  /\ Len(value[1]) > 0
  /\ \A k \in 1..Len(value[1]) : value[1][k].options = 4

TOTAL_QUESTIONS == 5

(* ------------------------------- state ---------------------------------- *)
VARIABLES
  isOpen, quiz, status, error, selectedIndex, showResult, questionIndex,
  correctCount, isComplete, resultSaved, pendingResult,
  subscribed,    \* pendingResult captured by the subscribed auth callback
  authSession,   \* the auth provider's current session
  inFlight,      \* quizler:generate requests awaiting their response
  flows,         \* saveQuizResult invocations that have not finished
  saves,         \* number of saveQuizResult invocations so far
  returned,      \* what saveQuizResult returned last
  db,            \* rows of quiz_results, a bag
  submitted,     \* per submitted question of this cycle: was it correct
  lastCall,      \* arguments of this cycle's saveQuizResult call by handleNext
  message,       \* the runtime message the background listener is handling
  bgpc,          \* the listener's position: idle, fetch, responded, ignored
  sent,          \* the arguments of the sendResponse calls for that message
  fetches,       \* backend calls made for that message
  fetched,       \* how the listener's fetch ended
  request,       \* the body of the POST /api/quiz request being handled
  caller,        \* who sent it: the background listener or another client
  srvpc,         \* handleQuiz: idle, fetchPageText, generateObject, answered
  pageText,      \* generateQuiz's pageText (its length)
  prompt,        \* the generation prompt: question count and content length
  response,      \* the HTTP response to the request
  mounted,       \* Options: the mount effect has run
  openedWith,    \* Options: what the URL held when the page was opened
  session,       \* Options: useState session
  verifying,     \* Options: useState verifying
  authError,     \* Options: useState authError
  authSuccess,   \* Options: useState authSuccess
  stats,         \* Options: useState stats
  loadingStats,  \* Options: useState loadingStats
  awaiting,      \* Options: the promises of the page that have not settled
  statsFor,      \* Options: the session the stats effect last ran for
  returnUrl,     \* Options: useState returnUrl
  reported       \* Options: the provider has handed a session to the page

\* the quiz progression state (useState hooks of part_001:113-123)
quizVars == << isOpen, quiz, status, error, selectedIndex, showResult,
               questionIndex, correctCount, isComplete, inFlight, submitted,
               lastCall >>
\* the persistence and auth state (part_001:133-146) and its environment
saveVars == << resultSaved, pendingResult, subscribed, authSession,
               flows, saves, returned, db >>
\* the background listener (background/index.ts) and the backend's quiz
\* route (backend/routes/quiz.ts, backend/services/quiz.service.ts)
serviceVars == << message, bgpc, sent, fetches, fetched, request, caller,
                  srvpc, pageText, prompt, response >>
\* the options page (pages/options/Options.tsx)
optionsVars == << mounted, openedWith, session, verifying, authError,
                  authSuccess, stats, loadingStats, awaiting, statsFor,
                  returnUrl, reported >>
vars == << quizVars, saveVars, serviceVars, optionsVars >>

(* ------------------------- derived render values ------------------------ *)
\* part_001:311-323
showLoading == isOpen /\ (status = "loading" \/ (status = "idle" /\ quiz = None))
\* mutant: the held payload is used without the validity predicate
quizData_Unvalidated == quiz
quizData == IF isQuizPayload(quiz) THEN quiz ELSE None
totalQuestions == IF quizData # None THEN Len(quizData[1]) ELSE TOTAL_QUESTIONS
currentQuestion ==
  IF quizData # None /\ questionIndex + 1 <= Len(quizData[1])
  THEN Some(quizData[1][questionIndex + 1])
  ELSE None
\* mutant: the submitted state is never recognised
hasResult_Never == FALSE
hasResult ==
  /\ showResult
  /\ currentQuestion # None
  /\ selectedIndex # NoSelection
  /\ currentQuestion[1].integral
\* mutant: the last question is recognised one step late
isLastQuestion_OffByOne == questionIndex >= totalQuestions
isLastQuestion == questionIndex >= totalQuestions - 1
canAdvance == selectedIndex # NoSelection

\* selectedIndex === currentQuestion.correctIndex
IsCorrect(sel, item) == item.integral /\ sel = item.correctIndex

\* mutant: Math.floor in place of Math.round
RoundPercent_Floor(x, y) == (100 * x) \div y
\* Math.round(x / y * 100), halves rounded up, for x >= 0 and y > 0
RoundPercent(x, y) == (200 * x + y) \div (2 * y)

NumCorrect(s) == Cardinality({ k \in 1..Len(s) : s[k] })

RemoveAt(s, i) == SubSeq(s, 1, i - 1) \o SubSeq(s, i + 1, Len(s))

\* a continuation queued behind an awaited saveQuizResult runs before any
\* other event
MicrotaskPending == \E i \in 1..Len(flows) : flows[i].pc = "returned"
\* passive effects are flushed before a discrete event is handled
EffectsFlushed == status # "idle" /\ subscribed = pendingResult
CanClick == ~MicrotaskPending /\ EffectsFlushed

(* ------------------------------- Init ----------------------------------- *)
Init ==
  /\ isOpen = FALSE
  /\ quiz = None
  /\ status = "idle"
  /\ error = None
  /\ selectedIndex = NoSelection
  /\ showResult = FALSE
  /\ questionIndex = 0
  /\ correctCount = 0
  /\ isComplete = FALSE
  /\ resultSaved = FALSE
  /\ pendingResult = None
  /\ subscribed = Unsubscribed
  /\ authSession \in {NoSession} \cup Users
  /\ inFlight = 0
  /\ flows = << >>
  /\ saves = 0
  /\ returned = "none"
  /\ db = EmptyBag
  /\ submitted = << >>
  /\ lastCall = None
  /\ message = None
  /\ bgpc = "idle"
  /\ sent = << >>
  /\ fetches = 0
  /\ fetched = None
  /\ request = None
  /\ caller = "none"
  /\ srvpc = "idle"
  /\ pageText = None
  /\ prompt = None
  /\ response = None
  /\ mounted = FALSE
  /\ openedWith = [hash |-> FALSE, token_hash |-> FALSE]
  /\ session = None
  /\ verifying = FALSE
  /\ authError = None
  /\ authSuccess = FALSE
  /\ stats = None
  /\ loadingStats = FALSE
  /\ awaiting = {}
  /\ statsFor = None
  /\ returnUrl = None
  /\ reported = FALSE

(* ------------------ background listener and message reply --------------- *)
\* What fetch(`${API_BASE_URL}/api/quiz`) can do in the background process:
\* throw, answer with a non-2xx status, answer 2xx with an unreadable body,
\* or answer 2xx with a JSON body out of P.
FetchOutcomes(P) ==
  { [kind |-> "throw", code |-> 0, body |-> None] }
    \cup { [kind |-> "http", code |-> c, body |-> None] : c \in {400, 500} }
    \cup { [kind |-> "badjson", code |-> 200, body |-> None] }
    \cup { [kind |-> "http", code |-> 200, body |-> b] : b \in P }

Response_ok(fo) == fo.code >= 200 /\ fo.code <= 299

\* mutant: the listener without its response.ok check
BackgroundReply_IgnoresStatus(fo) ==
  IF fo.kind = "throw"
  THEN [ok |-> FALSE, error |-> "Failed to fetch", data |-> None]
  ELSE IF fo.kind = "badjson"
  THEN [ok |-> FALSE, error |-> "Unexpected end of JSON input", data |-> None]
  ELSE [ok |-> TRUE, error |-> "", data |-> fo.body]

\* background/index.ts:10-38, the reply to a quizler:generate message
BackgroundReply(fo) ==
  IF fo.kind = "throw"
  THEN [ok |-> FALSE, error |-> "Failed to fetch", data |-> None]
  ELSE IF ~Response_ok(fo)
  THEN [ok |-> FALSE,
        error |-> IF fo.code = 400 THEN "Request failed: 400"
                                   ELSE "Request failed: 500",
        data |-> None]
  ELSE IF fo.kind = "badjson"
  THEN [ok |-> FALSE, error |-> "Unexpected end of JSON input", data |-> None]
  ELSE [ok |-> TRUE, error |-> "", data |-> fo.body]

\* what the sendMessage callback of requestQuiz sees: chrome.runtime.lastError
\* set, or the listener's reply
ChannelResults(P) ==
  { [lastError |-> TRUE, reply |-> BackgroundReply([kind |-> "throw", code |-> 0, body |-> None])] }
    \cup { [lastError |-> FALSE, reply |-> BackgroundReply(fo)] : fo \in FetchOutcomes(P) }

(* ----------------------------- requestQuiz ------------------------------ *)
\* part_001:332-345, up to the awaited sendMessage
requestQuizStart ==
  /\ status' = "loading"
  /\ error' = None
  /\ quiz' = None
  /\ selectedIndex' = NoSelection
  /\ showResult' = FALSE
  /\ inFlight' = inFlight + 1

\* part_001:347-369, the sendMessage callback and what follows the await
requestQuizSettle(r) ==
  IF r.lastError
  THEN /\ status' = "error"
       /\ error' = Some("The message port closed before a response was received.")
       /\ quiz' = quiz
  ELSE IF ~r.reply.ok
  THEN /\ status' = "error"
       /\ error' = Some(r.reply.error)
       /\ quiz' = quiz
  ELSE /\ quiz' = r.reply.data
       /\ status' = "ready"
       /\ error' = error

QuizResponse(r) ==
  /\ ~MicrotaskPending
  /\ inFlight > 0
  /\ inFlight' = inFlight - 1
  /\ requestQuizSettle(r)
  /\ UNCHANGED << isOpen, selectedIndex, showResult, questionIndex,
                  correctCount, isComplete, submitted, lastCall >>
  /\ UNCHANGED << saveVars, serviceVars, optionsVars >>

\* part_001:384-387, the effect that requests a quiz while status is idle
IdleEffect ==
  /\ ~MicrotaskPending
  /\ status = "idle"
  /\ requestQuizStart
  /\ UNCHANGED << isOpen, questionIndex, correctCount, isComplete, submitted,
                  lastCall >>
  /\ UNCHANGED << saveVars, serviceVars, optionsVars >>

\* part_001:504-514, the "Try again" button of the error banner
Retry ==
  /\ CanClick
  /\ isOpen
  /\ status = "error"
  /\ requestQuizStart
  /\ UNCHANGED << isOpen, questionIndex, correctCount, isComplete, submitted,
                  lastCall >>
  /\ UNCHANGED << saveVars, serviceVars, optionsVars >>

\* mutant: openWidget requests a quiz whatever the status
openWidget_AlwaysRequests ==
  /\ CanClick
  /\ questionIndex' = 0
  /\ correctCount' = 0
  /\ isComplete' = FALSE
  /\ isOpen' = TRUE
  /\ requestQuizStart
  /\ submitted' = << >>
  /\ lastCall' = None
  /\ UNCHANGED << saveVars, serviceVars, optionsVars >>

\* mutant: openWidget without setCorrectCount(0)
openWidget_KeepsCount ==
  /\ CanClick
  /\ questionIndex' = 0
  /\ correctCount' = correctCount
  /\ isComplete' = FALSE
  /\ isOpen' = TRUE
  /\ IF status = "idle" \/ status = "error"
     THEN requestQuizStart
     ELSE /\ selectedIndex' = NoSelection
          /\ showResult' = FALSE
          /\ UNCHANGED << status, error, quiz, inFlight >>
  /\ submitted' = << >>
  /\ lastCall' = None
  /\ UNCHANGED << saveVars, serviceVars, optionsVars >>

\* part_001:372-382, the floating button (always rendered)
openWidget ==
  /\ CanClick
  /\ questionIndex' = 0
  /\ correctCount' = 0
  /\ isComplete' = FALSE
  /\ isOpen' = TRUE
  /\ IF status = "idle" \/ status = "error"
     THEN requestQuizStart
     ELSE /\ selectedIndex' = NoSelection
          /\ showResult' = FALSE
          /\ UNCHANGED << status, error, quiz, inFlight >>
  /\ submitted' = << >>
  /\ lastCall' = None
  /\ UNCHANGED << saveVars, serviceVars, optionsVars >>

\* part_001:464-471 and 745-747, the close and "Continue Reading" buttons
closeWidget ==
  /\ CanClick
  /\ isOpen
  /\ isOpen' = FALSE
  /\ UNCHANGED << quiz, status, error, selectedIndex, showResult,
                  questionIndex, correctCount, isComplete, inFlight,
                  submitted, lastCall >>
  /\ UNCHANGED << saveVars, serviceVars, optionsVars >>

(* --------------------------- option buttons ----------------------------- *)
\* mutant: the question block without its !isComplete guard
QuestionShown_AfterComplete ==
  isOpen /\ ~showLoading /\ currentQuestion # None
\* part_001:515-517, the question block is rendered
QuestionShown ==
  isOpen /\ ~showLoading /\ currentQuestion # None /\ ~isComplete

\* part_001:529-616, an option button; disabled={hasResult}
SelectOption(i) ==
  /\ CanClick
  /\ QuestionShown
  /\ ~hasResult
  /\ selectedIndex' = i
  /\ UNCHANGED << isOpen, quiz, status, error, showResult, questionIndex,
                  correctCount, isComplete, inFlight, submitted, lastCall >>
  /\ UNCHANGED << saveVars, serviceVars, optionsVars >>

(* ---------------------------- saveQuizResult ---------------------------- *)
\* a call of saveQuizResult(score, total, percentage), part_001:149-150:
\* the function runs up to its awaited getSession.  cid numbers the quiz
\* completion the tuple comes from.
NewFlow(origin, cid, score, total, percentage) ==
  [ origin |-> origin, cid |-> cid, pc |-> "getSession", score |-> score,
    total |-> total, percentage |-> percentage, user |-> NoSession,
    ret |-> "none" ]

\* saveQuizResult returns: the flush callback awaits it (part_001:209-210)
\* and goes on after it, handleNext does not (part_001:417)
Return(i, value) ==
  /\ returned' = value
  /\ flows' = IF flows[i].origin = "flush"
              THEN [flows EXCEPT ![i].ret = value, ![i].pc = "returned"]
              ELSE RemoveAt(flows, i)

(* ------------------------------ handleNext ------------------------------ *)
\* part_001:410-413
finalCorrect ==
  IF IsCorrect(selectedIndex, currentQuestion[1])
  THEN correctCount + 1
  ELSE correctCount

\* part_001:392-398, the submit step
handleNextSubmit ==
  /\ correctCount' = IF IsCorrect(selectedIndex, currentQuestion[1])
                     THEN correctCount + 1
                     ELSE correctCount
  /\ showResult' = TRUE
  /\ submitted' = Append(submitted, IsCorrect(selectedIndex, currentQuestion[1]))
  /\ UNCHANGED << isOpen, quiz, status, error, selectedIndex, questionIndex,
                  isComplete, inFlight, lastCall >>
  /\ UNCHANGED << saveVars, serviceVars, optionsVars >>

\* mutant: the step to the next question evaluates the answer again
handleNextAdvance_Recounts ==
  /\ questionIndex' = questionIndex + 1
  /\ correctCount' = IF IsCorrect(selectedIndex, currentQuestion[1])
                     THEN correctCount + 1
                     ELSE correctCount
  /\ selectedIndex' = NoSelection
  /\ showResult' = FALSE
  /\ UNCHANGED << isOpen, quiz, status, error, isComplete, inFlight,
                  submitted, lastCall >>
  /\ UNCHANGED << saveVars, serviceVars, optionsVars >>

\* mutant: the step to the next question keeps the selection
handleNextAdvance_KeepsSelection ==
  /\ questionIndex' = questionIndex + 1
  /\ showResult' = FALSE
  /\ UNCHANGED << isOpen, quiz, status, error, selectedIndex, correctCount,
                  isComplete, inFlight, submitted, lastCall >>
  /\ UNCHANGED << saveVars, serviceVars, optionsVars >>

\* part_001:400-405, the step to the next question
handleNextAdvance ==
  /\ questionIndex' = questionIndex + 1
  /\ selectedIndex' = NoSelection
  /\ showResult' = FALSE
  /\ UNCHANGED << isOpen, quiz, status, error, correctCount, isComplete,
                  inFlight, submitted, lastCall >>
  /\ UNCHANGED << saveVars, serviceVars, optionsVars >>

\* part_001:407-417, completion of the last question
handleNextFinish ==
  /\ saves < MaxSaves
  /\ isComplete' = TRUE
  /\ LET score == finalCorrect
         percentage == RoundPercent(score, totalQuestions)
     IN /\ flows' = Append(flows, NewFlow("finish", saves + 1, score,
                                          totalQuestions, percentage))
        /\ lastCall' = Some([score |-> score, total |-> totalQuestions,
                             percentage |-> percentage, cid |-> saves + 1])
  /\ saves' = saves + 1
  /\ UNCHANGED << isOpen, quiz, status, error, selectedIndex, showResult,
                  questionIndex, correctCount, inFlight, submitted >>
  /\ UNCHANGED << resultSaved, pendingResult, subscribed,
                  authSession, returned, db >>
  /\ UNCHANGED << serviceVars, optionsVars >>

\* part_001:389-418; the button is rendered under canAdvance && !isComplete
\* inside the question block (part_001:625-639)
handleNext ==
  /\ CanClick
  /\ QuestionShown
  /\ canAdvance
  /\ IF currentQuestion = None \/ selectedIndex = NoSelection
     THEN UNCHANGED vars
     ELSE IF ~showResult
     THEN handleNextSubmit
     ELSE IF ~isLastQuestion
     THEN handleNextAdvance
     ELSE handleNextFinish

\* mutant: an unflushed earlier tuple is kept instead of being replaced
SaveNoSession_KeepsEarlier(i) ==
  /\ pendingResult' = IF pendingResult # None
                      THEN pendingResult
                      ELSE Some([score |-> flows[i].score,
                                 total |-> flows[i].total,
                                 percentage |-> flows[i].percentage,
                                 cid |-> flows[i].cid])
  /\ Return(i, "false")
  /\ UNCHANGED << resultSaved, db >>

\* part_001:152-156, getSession resolved without a user
SaveNoSession(i) ==
  /\ pendingResult' = Some([score |-> flows[i].score, total |-> flows[i].total,
                            percentage |-> flows[i].percentage,
                            cid |-> flows[i].cid])
  /\ Return(i, "false")
  /\ UNCHANGED << resultSaved, db >>

\* part_001:158-165, getSession resolved with a user: the insert is issued
SaveIssueInsert(i) ==
  /\ flows' = [flows EXCEPT ![i].user = authSession, ![i].pc = "insert"]
  /\ UNCHANGED << pendingResult, resultSaved, db, returned >>

\* part_001:150-165, the continuation of the awaited getSession
SaveGetSession(i) ==
  /\ ~MicrotaskPending
  /\ i \in 1..Len(flows)
  /\ flows[i].pc = "getSession"
  /\ IF authSession = NoSession THEN SaveNoSession(i) ELSE SaveIssueInsert(i)
  /\ UNCHANGED << quizVars, serviceVars, optionsVars >>
  /\ UNCHANGED << subscribed, authSession, saves >>

\* the row saveQuizResult inserts, part_001:158-165
InsertedRow(f) ==
  [ user_id |-> f.user, score |-> f.score, total_questions |-> f.total,
    percentage |-> f.percentage, cid |-> f.cid ]

\* mutant: setResultSaved(true) placed before the error check
SaveAfterInsert_SavedOnError(i, ok) ==
  IF ok
  THEN /\ db' = db (+) SetToBag({InsertedRow(flows[i])})
       /\ resultSaved' = TRUE
       /\ Return(i, "true")
  ELSE /\ db' = db
       /\ resultSaved' = TRUE
       /\ Return(i, "false")

\* part_001:167-173, the continuation of the awaited insert
SaveAfterInsert(i, ok) ==
  IF ok
  THEN /\ db' = db (+) SetToBag({InsertedRow(flows[i])})
       /\ resultSaved' = TRUE
       /\ Return(i, "true")
  ELSE /\ db' = db
       /\ resultSaved' = resultSaved
       /\ Return(i, "false")

SaveInsert(i, ok) ==
  /\ ~MicrotaskPending
  /\ i \in 1..Len(flows)
  /\ flows[i].pc = "insert"
  /\ SaveAfterInsert(i, ok)
  /\ UNCHANGED << quizVars, serviceVars, optionsVars >>
  /\ UNCHANGED << pendingResult, subscribed, authSession, saves >>

(* --------------------------- auth-state effect -------------------------- *)
\* part_001:192-216, the effect body: it runs after mount and after every
\* change of pendingResult and subscribes a callback that closes over the
\* pendingResult of that render
AuthEffect ==
  /\ ~MicrotaskPending
  /\ subscribed # pendingResult
  /\ subscribed' = pendingResult
  /\ UNCHANGED << quizVars, serviceVars, optionsVars >>
  /\ UNCHANGED << resultSaved, pendingResult, authSession, flows, saves,
                  returned, db >>

\* part_001:207-209, the flush of the callback's pendingResult is started
FlushStart(p) ==
  /\ flows' = Append(flows, NewFlow("flush", p.cid, p.score, p.total, p.percentage))
  /\ saves' = saves + 1

\* part_001:199-213, the subscribed callback receives a notification that
\* carries the provider's session
AuthStateChange ==
  /\ ~MicrotaskPending
  /\ subscribed # Unsubscribed
  /\ IF authSession # NoSession /\ subscribed # None
     THEN /\ saves < MaxSaves
          /\ FlushStart(subscribed[1])
     ELSE UNCHANGED << flows, saves >>
  /\ UNCHANGED << quizVars, serviceVars, optionsVars >>
  /\ UNCHANGED << resultSaved, pendingResult, subscribed, authSession,
                  returned, db >>

\* part_001:210, what follows the awaited saveQuizResult in the callback
FlushClear(i) == pendingResult' = None

FlushContinue(i) ==
  /\ i \in 1..Len(flows)
  /\ flows[i].pc = "returned"
  /\ FlushClear(i)
  /\ flows' = RemoveAt(flows, i)
  /\ UNCHANGED << quizVars, serviceVars, optionsVars >>
  /\ UNCHANGED << resultSaved, subscribed, authSession, saves,
                  returned, db >>

(* ------------------------------ environment ----------------------------- *)
\* the user signs in (OTP verified, or OAuth completed on the options page)
SignIn(u) ==
  /\ ~MicrotaskPending
  /\ authSession = NoSession
  /\ authSession' = u
  /\ UNCHANGED << quizVars, serviceVars, optionsVars >>
  /\ UNCHANGED << resultSaved, pendingResult, subscribed, flows,
                  saves, returned, db >>

\* the user signs out (part_000, handleLogout)
SignOut ==
  /\ ~MicrotaskPending
  /\ authSession # NoSession
  /\ authSession' = NoSession
  /\ UNCHANGED << quizVars, serviceVars, optionsVars >>
  /\ UNCHANGED << resultSaved, pendingResult, subscribed, flows,
                  saves, returned, db >>

(* ----------------------------- specifications --------------------------- *)
\* the steps of the quiz progression, over responses that carry a body of P
QuizNext(P) ==
  \/ IdleEffect
  \/ AuthEffect
  \/ openWidget
  \/ closeWidget
  \/ Retry
  \/ \E r \in ChannelResults(P) : QuizResponse(r)
  \/ \E i \in 0..3 : SelectOption(i)
  \/ handleNext

\* the quiz progression over every response body; the saveQuizResult calls
\* it makes are recorded and stay unanswered
NextQuiz == QuizNext(Payloads)

SpecQuiz == Init /\ [][NextQuiz]_vars

\* the quiz progression over the longer quizzes
NextLong == QuizNext({ Some(qs) : qs \in LongQuizzes })

SpecLong == Init /\ [][NextLong]_vars

\* the quizzes the handoff is followed over: one valid question
HandoffPayloads ==
  { Some(<< [options |-> 4, correctIndex |-> 1, integral |-> TRUE] >>) }

\* the whole widget with the user signing in and out at any time
Next ==
  \/ QuizNext(HandoffPayloads)
  \/ \E i \in 1..MaxSaves : SaveGetSession(i)
  \/ \E i \in 1..MaxSaves, ok \in BOOLEAN : SaveInsert(i, ok)
  \/ \E i \in 1..MaxSaves : FlushContinue(i)
  \/ AuthStateChange
  \/ \E u \in Users : SignIn(u)
  \/ SignOut

Spec == Init /\ [][Next]_vars


(* ------------------------------------------------------------------------ *)
(* The backend's quiz route and the background listener                     *)
(* ------------------------------------------------------------------------ *)
\* quiz.service.ts:6, html.ts:1, part_001:76
MAX_TEXT_LENGTH == 9000

Min(a, b) == IF a <= b THEN a ELSE b

\* A string as far as the code looks at it: its length and whether it is
\* made of whitespace only.  slice(0, MAX_TEXT_LENGTH) keeps a prefix.
slice(len) == Min(len, MAX_TEXT_LENGTH)

\* JSON values of the request's count field.  Numbers are held in tenths
\* (v = 5 is 0.5, v = 250 is 25); "huge" is a literal such as 1e999, which
\* JSON.parse reads as Infinity; "word" is the string "abc", "digits" the
\* string "7", "true" the boolean.
CountValues ==
  { [t |-> "absent", v |-> 0], [t |-> "null", v |-> 0],
    [t |-> "huge", v |-> 0], [t |-> "true", v |-> 0],
    [t |-> "word", v |-> 0], [t |-> "digits", v |-> 70] }
    \cup { [t |-> "number", v |-> n] :
             n \in {-10, 0, 5, 10, 30, 50, 75, 100, 105, 110, 250} }

\* JavaScript's Number(value): a finite number (in tenths), NaN or Infinity
Number(c) ==
  CASE c.t = "number" -> [kind |-> "finite", tenths |-> c.v]
    [] c.t = "digits" -> [kind |-> "finite", tenths |-> c.v]
    [] c.t = "true"   -> [kind |-> "finite", tenths |-> 10]
    [] c.t = "huge"   -> [kind |-> "inf", tenths |-> 0]
    [] OTHER          -> [kind |-> "nan", tenths |-> 0]

\* quiz.service.ts:25, Number(count ?? 5)
requestedCount(c) ==
  IF c.t \in {"absent", "null"}
  THEN [kind |-> "finite", tenths |-> 50]
  ELSE Number(c)

\* quiz.service.ts:26-29
questionCount(c) ==
  LET r == requestedCount(c)
  IN IF r.kind = "finite" /\ r.tenths > 0
     THEN Min(r.tenths \div 10, 10)
     ELSE 5

\* values of the request's text field
TextValues ==
  { [t |-> "absent", len |-> 0, blank |-> TRUE],
    [t |-> "number", len |-> 0, blank |-> TRUE],
    [t |-> "string", len |-> 0, blank |-> TRUE],
    [t |-> "string", len |-> 3, blank |-> TRUE] }
    \cup { [t |-> "string", len |-> n, blank |-> FALSE] :
             n \in {10, 9000, 9001, 20000} }

\* document.body.innerText: its length, and its length once runs of
\* whitespace are collapsed and the ends trimmed
Documents ==
  { [raw |-> 0, norm |-> 0], [raw |-> 40, norm |-> 0],
    [raw |-> 120, norm |-> 100], [raw |-> 9400, norm |-> 9000],
    [raw |-> 9001, norm |-> 9001], [raw |-> 30000, norm |-> 20000] }

\* part_001:106-109
collectPageText(doc) ==
  [t |-> "string", len |-> slice(doc.norm), blank |-> doc.norm = 0]

\* bodies of POST /api/quiz: not JSON, the JSON value null, or an object
\* whose url is absent, a number or a string
NoText == [t |-> "absent", len |-> 0, blank |-> TRUE]
NoCount == [t |-> "absent", v |-> 0]
Bodies ==
  { [kind |-> k, url |-> "absent", text |-> NoText, count |-> NoCount] :
      k \in {"unparsable", "null"} }
    \cup { [kind |-> "object", url |-> u, text |-> NoText, count |-> NoCount] :
             u \in {"absent", "number"} }
    \cup { [kind |-> "object", url |-> "string", text |-> x, count |-> c] :
             x \in TextValues, c \in CountValues }

\* part_001:339-344, the payload requestQuiz sends with quizler:generate
QuizRequest(doc) ==
  [kind |-> "object", url |-> "string", text |-> collectPageText(doc),
   count |-> [t |-> "number", v |-> 10 * TOTAL_QUESTIONS]]

\* runtime messages the background listener receives
Messages ==
  { [type |-> "quizler:generate", payload |-> QuizRequest(doc)] :
      doc \in Documents }
    \cup { [type |-> "quizler:generate",
            payload |-> [kind |-> "unparsable", url |-> "absent",
                         text |-> NoText, count |-> NoCount]],
           [type |-> "quizler:other",
            payload |-> [kind |-> "null", url |-> "absent",
                         text |-> NoText, count |-> NoCount]] }

\* what fetch(url) does inside fetchPageText: throw, a non-2xx answer, or
\* html whose stripped text has the given length
PageFetches ==
  { [kind |-> "throw", stripped |-> 0], [kind |-> "notok", stripped |-> 0] }
    \cup { [kind |-> "html", stripped |-> n] : n \in {0, 10, 9000, 9001, 20000} }

\* html.ts:15-24, the length of the text fetchPageText returns
fetchPageText(o) == IF o.kind = "html" THEN slice(o.stripped) ELSE 0

\* what generateObject does: throw (provider failure, or output that fails
\* quizSchema), or an object that satisfies quizSchema
Generations ==
  { [kind |-> "throw", object |-> None] }
    \cup { [kind |-> "object", object |-> q] :
             q \in { g \in HandoffPayloads
                          \cup { Some(qs) : qs \in LongQuizzes } : quizSchema(g) } }

\* lib/http.ts:7-15 with routes/quiz.ts:8,19,22: the responses handleQuiz
\* builds, and the runtime's answer to a handler that threw
\* cors: the response carries corsHeaders (Access-Control-Allow-Origin: *)
jsonResponse(code, err, questions, hasSource) ==
  [status |-> code, json |-> TRUE, error |-> err, questions |-> questions,
   sourceUrl |-> hasSource, cors |-> TRUE]
UnhandledRejection ==
  [status |-> 500, json |-> FALSE, error |-> "", questions |-> None,
   sourceUrl |-> FALSE, cors |-> FALSE]

\* routes/quiz.ts:32-34, the answer to a preflight
Preflight ==
  [status |-> 200, json |-> FALSE, error |-> "", questions |-> None,
   sourceUrl |-> FALSE, cors |-> TRUE]
\* routes/quiz.ts:48
NotFound ==
  [status |-> 404, json |-> FALSE, error |-> "", questions |-> None,
   sourceUrl |-> FALSE, cors |-> FALSE]
\* backend/index.ts:110-112, the /health route
handleHealth == jsonResponse(200, "", None, FALSE)

\* request methods and paths the router is followed over
Methods == {"OPTIONS", "GET", "POST"}
Paths == {"/", "/api/quiz", "/health", "/favicon.ico"}

\* routes/quiz.ts:29-49 for every request but POST /api/quiz
route(method, path) ==
  IF method = "OPTIONS" THEN Preflight
  ELSE IF path = "/" THEN jsonResponse(200, "", None, FALSE)
  ELSE IF path = "/health" THEN handleHealth
  ELSE NotFound

(* ------------------------------ generateQuiz ---------------------------- *)
\* quiz.service.ts:21-45 once pageText is known: the empty-text answer, or
\* the prompt and the awaited generateObject
generateQuizPrompt(body, text) ==
  /\ pageText' = Some(text)
  /\ IF text = 0
     THEN /\ response' = Some(jsonResponse(400, "Unable to extract page text",
                                           None, FALSE))
          /\ srvpc' = "answered"
          /\ prompt' = None
     ELSE /\ prompt' = Some([questionCount |-> questionCount(body.count),
                             content |-> text])
          /\ srvpc' = "generateObject"
          /\ response' = None

\* mutant: the request's text is embedded whole
generateQuizText_Unsliced(body) == generateQuizPrompt(body, body.text.len)
\* quiz.service.ts:16-18, the request's own text is used
generateQuizText(body) == generateQuizPrompt(body, slice(body.text.len))

\* mutant: a text of whitespace only is used as page text
generateQuiz_AcceptsBlank(body) ==
  IF body.text.t = "string"
  THEN generateQuizText(body)
  ELSE /\ srvpc' = "fetchPageText"
       /\ pageText' = None
       /\ prompt' = None
       /\ response' = None

\* quiz.service.ts:15-19
generateQuiz(body) ==
  IF body.text.t = "string" /\ ~body.text.blank
  THEN generateQuizText(body)
  ELSE /\ srvpc' = "fetchPageText"
       /\ pageText' = None
       /\ prompt' = None
       /\ response' = None

\* routes/quiz.ts:4-16, a POST /api/quiz request reaches the handler
handleQuiz(body, who) ==
  /\ srvpc = "idle"
  /\ request' = Some(body)
  /\ caller' = who
  /\ IF body.kind # "object" \/ body.url # "string"
     THEN /\ response' = Some(jsonResponse(400, "Missing url", None, FALSE))
          /\ srvpc' = "answered"
          /\ pageText' = None
          /\ prompt' = None
     ELSE generateQuiz(body)

\* quiz.service.ts:19-23, the awaited fetchPageText resolves
fetchPageTextSettle(o) ==
  /\ srvpc = "fetchPageText"
  /\ generateQuizPrompt(request[1], fetchPageText(o))
  /\ UNCHANGED << message, bgpc, sent, fetches, fetched, request, caller >>
  /\ UNCHANGED << quizVars, saveVars, optionsVars >>

\* quiz.service.ts:40-50 and routes/quiz.ts:18-22, the awaited
\* generateObject settles; a rejection is caught nowhere
generateObjectSettle(g) ==
  /\ srvpc = "generateObject"
  /\ srvpc' = "answered"
  /\ response' = IF g.kind = "throw"
                 THEN Some(UnhandledRejection)
                 ELSE Some(jsonResponse(200, "", g.object, TRUE))
  /\ UNCHANGED << message, bgpc, sent, fetches, fetched, request, caller,
                  pageText, prompt >>
  /\ UNCHANGED << quizVars, saveVars, optionsVars >>

\* the response has been sent: the handler's invocation is over
handleQuizReturns ==
  /\ srvpc = "answered"
  /\ bgpc # "awaiting"
  /\ srvpc' = "idle"
  /\ request' = None
  /\ caller' = "none"
  /\ pageText' = None
  /\ prompt' = None
  /\ response' = None
  /\ UNCHANGED << message, bgpc, sent, fetches, fetched >>
  /\ UNCHANGED << quizVars, saveVars, optionsVars >>

\* routes/quiz.ts:29-49, a request other than POST /api/quiz is answered
router(method, path) ==
  /\ srvpc = "idle"
  /\ bgpc = "idle"
  /\ ~(method = "POST" /\ path = "/api/quiz")
  /\ response' = Some(route(method, path))
  /\ srvpc' = "answered"
  /\ caller' = "other"
  /\ request' = None
  /\ pageText' = None
  /\ prompt' = None
  /\ UNCHANGED << message, bgpc, sent, fetches, fetched >>
  /\ UNCHANGED << quizVars, saveVars, optionsVars >>

\* a client other than the extension posts a body
DirectRequest(body) ==
  /\ bgpc = "idle"
  /\ handleQuiz(body, "direct")
  /\ UNCHANGED << message, bgpc, sent, fetches, fetched >>
  /\ UNCHANGED << quizVars, saveVars, optionsVars >>

(* --------------------------- background listener ------------------------ *)
\* background/index.ts:10-20 and 36-37: the listener is called with a
\* message; any type but quizler:generate returns false at once
onMessage(m) ==
  /\ bgpc = "idle"
  /\ srvpc = "idle"
  /\ message' = Some(m)
  /\ sent' = << >>
  /\ fetched' = None
  /\ IF m.type # "quizler:generate"
     THEN bgpc' = "ignored" /\ fetches' = 0
     ELSE bgpc' = "fetch" /\ fetches' = 1
  /\ UNCHANGED << request, caller, srvpc, pageText, prompt, response >>
  /\ UNCHANGED << quizVars, saveVars, optionsVars >>

\* background/index.ts:22-33, run() after its fetch ended as fo
runSettle(fo) ==
  /\ sent' = Append(sent, BackgroundReply(fo))
  /\ fetched' = Some(fo)
  /\ bgpc' = "responded"
  /\ UNCHANGED << message, fetches >>

\* the fetch of background/index.ts:16 rejects: the backend is not reached
FetchFails ==
  /\ bgpc = "fetch"
  /\ runSettle([kind |-> "throw", code |-> 0, body |-> None])
  /\ UNCHANGED << request, caller, srvpc, pageText, prompt, response >>
  /\ UNCHANGED << quizVars, saveVars, optionsVars >>

\* the POST of background/index.ts:16-20 reaches the backend
FetchDelivered ==
  /\ bgpc = "fetch"
  /\ bgpc' = "awaiting"
  /\ handleQuiz(message[1].payload, "background")
  /\ UNCHANGED << message, sent, fetches, fetched >>
  /\ UNCHANGED << quizVars, saveVars, optionsVars >>

\* how the listener's fetch can end once the backend answered: with that
\* answer, or, for a 2xx answer, with a body that response.json() rejects
FetchResults(resp) ==
  { [kind |-> "http", code |-> resp.status, body |-> resp.questions] }
    \cup IF resp.status = 200
         THEN { [kind |-> "badjson", code |-> 200, body |-> None] }
         ELSE {}

FetchAnswered ==
  /\ bgpc = "awaiting"
  /\ srvpc = "answered"
  /\ \E fo \in FetchResults(response[1]) : runSettle(fo)
  /\ UNCHANGED << request, caller, srvpc, pageText, prompt, response >>
  /\ UNCHANGED << quizVars, saveVars, optionsVars >>

\* the listener's invocation for the message is over
onMessageReturns ==
  /\ bgpc \in {"responded", "ignored"}
  /\ bgpc' = "idle"
  /\ message' = None
  /\ sent' = << >>
  /\ fetches' = 0
  /\ fetched' = None
  /\ UNCHANGED << request, caller, srvpc, pageText, prompt, response >>
  /\ UNCHANGED << quizVars, saveVars, optionsVars >>

\* the extension's request path and the backend, with other clients
NextService ==
  \/ onMessageReturns
  \/ handleQuizReturns
  \/ \E m \in Messages : onMessage(m)
  \/ FetchFails
  \/ FetchDelivered
  \/ FetchAnswered
  \/ \E b \in Bodies : DirectRequest(b)
  \/ \E method \in Methods, path \in Paths : router(method, path)
  \/ \E o \in PageFetches : fetchPageTextSettle(o)
  \/ \E g \in Generations : generateObjectSettle(g)

SpecService == Init /\ [][NextService]_vars

(* ------------------------------------------------------------------------ *)
(* The options page                                                         *)
(* ------------------------------------------------------------------------ *)
\* Options.tsx:277-386, the branch of the render that is shown
view ==
  IF verifying THEN "verifying"
  ELSE IF authError # None THEN "error"
  ELSE IF authSuccess /\ session = None THEN "loading-account"
  ELSE IF session # None THEN "signed-in"
  ELSE "signed-out"

\* Options.tsx:176 and 240: the mount effect has no dependencies, so the
\* callbacks it creates read the verifying of the first render, the initial
\* value of useState(false) (Options.tsx:168)
capturedVerifying == FALSE

\* Options.tsx:213-219 and 226-232, the body shared by the getSession
\* continuation and the auth-state callback, called with the provider's
\* session s
sessionCallback(s) ==
  /\ session' = s
  /\ reported' = (reported \/ s # None)
  /\ IF s # None /\ capturedVerifying
     THEN verifying' = FALSE /\ authSuccess' = TRUE
     ELSE UNCHANGED << verifying, authSuccess >>

providerSession == IF authSession = NoSession THEN None ELSE Some(authSession)

\* Options.tsx:176-240, the synchronous part of the mount effect, for a URL
\* whose hash holds access_token (hash) and whose query holds token_hash
OptionsMount(hash, token_hash) ==
  /\ ~mounted
  /\ mounted' = TRUE
  /\ openedWith' = [hash |-> hash, token_hash |-> token_hash]
  /\ verifying' = (hash \/ token_hash)
  /\ awaiting' = {"getSession", "storage"}
                   \cup IF token_hash THEN {"verifyOtp"} ELSE {}
  /\ UNCHANGED << session, authError, authSuccess, stats, loadingStats,
                  statsFor, returnUrl, reported >>
  /\ UNCHANGED << quizVars, saveVars, serviceVars >>

\* Options.tsx:188-205, verifyOtp resolves; success stores the session
verifyOtpSettle(ok) ==
  /\ "verifyOtp" \in awaiting
  /\ awaiting' = awaiting \ {"verifyOtp"}
  /\ IF ok
     THEN /\ authSuccess' = TRUE
          /\ authError' = authError
          /\ authSession' \in Users
     ELSE /\ authError' = Some("Token has expired or is invalid")
          /\ authSuccess' = authSuccess
          /\ authSession' = authSession
  /\ verifying' = FALSE
  /\ UNCHANGED << mounted, openedWith, session, stats, loadingStats,
                  statsFor, returnUrl, reported >>
  /\ UNCHANGED << resultSaved, pendingResult, subscribed, flows, saves,
                  returned, db >>
  /\ UNCHANGED << quizVars, serviceVars >>

\* Options.tsx:208-212, chrome.storage.local.get resolves
storageSettle(url) ==
  /\ "storage" \in awaiting
  /\ awaiting' = awaiting \ {"storage"}
  /\ returnUrl' = IF url # None THEN url ELSE returnUrl
  /\ UNCHANGED << mounted, openedWith, session, verifying, authError,
                  authSuccess, stats, loadingStats, statsFor, reported >>
  /\ UNCHANGED << quizVars, saveVars, serviceVars >>

\* Options.tsx:214-221, getSession resolves
getSessionSettle ==
  /\ "getSession" \in awaiting
  /\ awaiting' = awaiting \ {"getSession"}
  /\ sessionCallback(providerSession)
  /\ UNCHANGED << mounted, openedWith, authError, stats, loadingStats,
                  statsFor, returnUrl >>
  /\ UNCHANGED << quizVars, saveVars, serviceVars >>

\* Options.tsx:224-234, the subscribed callback receives a notification
OptionsAuthStateChange ==
  /\ mounted
  /\ sessionCallback(providerSession)
  /\ UNCHANGED << mounted, openedWith, authError, stats, loadingStats,
                  statsFor, returnUrl, awaiting >>
  /\ UNCHANGED << quizVars, saveVars, serviceVars >>

\* Options.tsx:243-263, the effect on [session]: fetchStats up to its await
statsEffect ==
  /\ mounted
  /\ statsFor # Some(session)
  /\ statsFor' = Some(session)
  /\ IF session # None
     THEN loadingStats' = TRUE /\ awaiting' = awaiting \cup {"stats"}
     ELSE UNCHANGED << loadingStats, awaiting >>
  /\ UNCHANGED << mounted, openedWith, session, verifying, authError,
                  authSuccess, stats, returnUrl, reported >>
  /\ UNCHANGED << quizVars, saveVars, serviceVars >>

\* Options.tsx:249-259, the leaderboard query resolves
statsSettle(ok) ==
  /\ "stats" \in awaiting
  /\ awaiting' = awaiting \ {"stats"}
  /\ stats' = IF ok THEN Some("row") ELSE stats
  /\ loadingStats' = FALSE
  /\ UNCHANGED << mounted, openedWith, session, verifying, authError,
                  authSuccess, statsFor, returnUrl, reported >>
  /\ UNCHANGED << quizVars, saveVars, serviceVars >>

\* Options.tsx:265-269, Sign Out on the signed-in view, up to its await
handleLogout ==
  /\ view = "signed-in"
  /\ "signOut" \notin awaiting
  /\ awaiting' = awaiting \cup {"signOut"}
  /\ UNCHANGED << mounted, openedWith, session, verifying, authError,
                  authSuccess, stats, loadingStats, statsFor, returnUrl,
                  reported >>
  /\ UNCHANGED << quizVars, saveVars, serviceVars >>

\* Options.tsx:266-268, signOut resolved
handleLogoutSettle ==
  /\ "signOut" \in awaiting
  /\ awaiting' = awaiting \ {"signOut"}
  /\ authSession' = NoSession
  /\ session' = None
  /\ stats' = None
  /\ UNCHANGED << mounted, openedWith, verifying, authError, authSuccess,
                  loadingStats, statsFor, returnUrl, reported >>
  /\ UNCHANGED << resultSaved, pendingResult, subscribed, flows, saves,
                  returned, db >>
  /\ UNCHANGED << quizVars, serviceVars >>

\* Options.tsx:333-336, the button of the error screen
dismissAuthError ==
  /\ view = "error"
  /\ authError' = None
  /\ UNCHANGED << mounted, openedWith, session, verifying, authSuccess,
                  stats, loadingStats, statsFor, returnUrl, awaiting,
                  reported >>
  /\ UNCHANGED << quizVars, saveVars, serviceVars >>

\* the options page, with the provider establishing and dropping sessions
\* (detectSessionInUrl, a sign-in or sign-out in the popup) at any time
NextOptions ==
  \/ \E hash \in BOOLEAN, token_hash \in BOOLEAN : OptionsMount(hash, token_hash)
  \/ \E ok \in BOOLEAN : verifyOtpSettle(ok)
  \/ \E url \in {None, Some("page")} : storageSettle(url)
  \/ getSessionSettle
  \/ OptionsAuthStateChange
  \/ statsEffect
  \/ \E ok \in BOOLEAN : statsSettle(ok)
  \/ handleLogout
  \/ handleLogoutSettle
  \/ dismissAuthError
  \/ \E u \in Users : SignIn(u)
  \/ SignOut

SpecOptions == Init /\ [][NextOptions]_vars

(* ------------------------------------------------------------------------ *)
(* Properties                                                               *)
(* ------------------------------------------------------------------------ *)

\* number of quiz_results rows that came from completion c
RowsOf(c) == { r \in BagToSet(db) : r.cid = c }
InsertCount(c) ==
  IF RowsOf(c) = {} THEN 0 ELSE BagCardinality([r \in RowsOf(c) |-> db[r]])

\* the tuple a saveQuizResult invocation was called with
TupleOf(f) ==
  [score |-> f.score, total |-> f.total, percentage |-> f.percentage,
   cid |-> f.cid]

\* nothing is awaited and every effect has run
Quiescent == flows = << >> /\ subscribed = pendingResult

\* C1: when the quiz is finished, the score handed to saveQuizResult is the
\* number of questions of this cycle whose selection at submission was the
\* correct one; a correct last answer counts once.
C1_FinalScoreCountsEachAnswerOnce ==
  lastCall # None => lastCall[1].score = NumCorrect(submitted)

\* C2: no completion's result is inserted into quiz_results more than once,
\* whatever the interleaving of saves, notifications and flushes.
C2_NoResultInsertedTwice ==
  \A c \in 1..MaxSaves : InsertCount(c) <= 1

\* C3 (its finite part): a result that was persisted was persisted exactly
\* once, and once nothing is in flight the pending slot no longer holds it,
\* so that later sign-ins persist nothing.
C3_DeferredResultFlushedOnce ==
  \A c \in 1..MaxSaves :
    InsertCount(c) >= 1 =>
      /\ InsertCount(c) = 1
      /\ Quiescent => (pendingResult = None \/ pendingResult[1].cid # c)

\* C4: a flush that did not persist the tuple (saveQuizResult returned
\* false) leaves the tuple in the pending slot.
C4_PendingSurvivesFailedFlush ==
  [][ \A i \in 1..Len(flows) :
        (FlushContinue(i) /\ flows[i].ret = "false")
          => pendingResult' = Some(TupleOf(flows[i])) ]_vars

\* C5: saveQuizResult without a session inserts nothing, sets the pending
\* slot to exactly its arguments (replacing what was there), leaves
\* resultSaved alone and returns false.
C5_NoSessionStoresPending ==
  [][ \A i \in 1..Len(flows) :
        (SaveGetSession(i) /\ authSession = NoSession)
          => /\ db' = db
             /\ pendingResult' = Some(TupleOf(flows[i]))
             /\ resultSaved' = resultSaved
             /\ returned' = "false" ]_vars

\* a reachable case of C5: a second completion's tuple has replaced an
\* earlier one in the slot, nothing was inserted
C5_Witness ==
  /\ pendingResult # None
  /\ pendingResult[1].cid >= 2
  /\ returned = "false"
  /\ db = EmptyBag
  /\ ~resultSaved

\* C6: saveQuizResult with a session issues one insert tagged with the
\* session's user id and does not write the pending slot; it returns true
\* and sets resultSaved exactly when the insert succeeds; a failed insert
\* returns false, leaves resultSaved and the quiz progression unchanged.
C6_SessionInsertsOnce ==
  [][ \A i \in 1..Len(flows) :
        /\ (SaveGetSession(i) /\ authSession # NoSession)
             => /\ flows'[i].user = authSession
                /\ flows'[i].pc = "insert"
                /\ db' = db
                /\ pendingResult' = pendingResult
                /\ resultSaved' = resultSaved
        /\ \A ok \in BOOLEAN :
             SaveInsert(i, ok)
               => /\ flows[i].user # NoSession
                  /\ pendingResult' = pendingResult
                  /\ UNCHANGED << isComplete, questionIndex, correctCount,
                                  status, error >>
                  /\ IF db' # db
                     THEN /\ db' = db (+) SetToBag({
                                 [ user_id |-> flows[i].user,
                                   score |-> flows[i].score,
                                   total_questions |-> flows[i].total,
                                   percentage |-> flows[i].percentage,
                                   cid |-> flows[i].cid ] })
                          /\ resultSaved'
                          /\ returned' = "true"
                     ELSE /\ resultSaved' = resultSaved
                          /\ returned' = "false" ]_vars

\* a reachable case of C6: one insert succeeded and one failed, with the
\* quiz completed
C6_Witness ==
  /\ BagCardinality(db) = 1
  /\ resultSaved
  /\ returned = "false"
  /\ saves >= 2
  /\ pendingResult = None
  /\ isComplete

\* C7: every payload isQuizPayload accepts has at least one question, and
\* every question has 4 options and an integer correctIndex in 0..3.
C7_AcceptedPayloadIsValid ==
  isQuizPayload(quiz) =>
    /\ Len(quiz[1]) >= 1
    /\ \A k \in 1..Len(quiz[1]) :
         /\ quiz[1][k].options = 4
         /\ quiz[1][k].integral
         /\ quiz[1][k].correctIndex \in 0..3

\* the widget holds a response body that fails the validity predicate
HoldsInvalidPayload == status = "ready" /\ ~isQuizPayload(quiz)

\* C8: while a payload that fails the predicate is held there is no current
\* question, nothing is selected or submitted, the correct count stays 0 and
\* the completion flag stays false.
C8_InvalidPayloadNotReady ==
  HoldsInvalidPayload =>
    /\ currentQuestion = None
    /\ ~QuestionShown
    /\ selectedIndex = NoSelection
    /\ ~showResult
    /\ correctCount = 0
    /\ submitted = << >>
    /\ ~isComplete
    /\ lastCall = None

\* a reachable case of C8: the open widget holds a payload whose question
\* has 3 options
C8_Witness ==
  /\ HoldsInvalidPayload
  /\ isOpen
  /\ quiz # None
  /\ Len(quiz[1]) >= 1

\* C9: a failed generation ends in the error status with a message and the
\* retry action, no request is issued on its own after it, and the open
\* widget always shows the loading placeholder, the error banner with its
\* retry, or a question (or the completion card).
C9_FailureEndsInErrorWithRetry ==
  /\ (status = "error") => (error # None /\ error[1] # "" /\ inFlight = 0)
  /\ (isOpen /\ ~showLoading /\ status # "error") => currentQuestion # None

\* C10: openWidget leaves selection empty, result-visibility false, question
\* index 0, correct count 0 and completion flag false, and requests a quiz
\* exactly when the status was idle or error; otherwise payload and status
\* are unchanged.
C10_OpenWidgetResets ==
  [][ openWidget =>
        /\ selectedIndex' = NoSelection
        /\ showResult' = FALSE
        /\ questionIndex' = 0
        /\ correctCount' = 0
        /\ isComplete' = FALSE
        /\ IF status = "idle" \/ status = "error"
           THEN inFlight' = inFlight + 1 /\ status' = "loading"
           ELSE inFlight' = inFlight /\ status' = status /\ quiz' = quiz ]_vars

\* a reachable case of C10: the widget was reopened after a completed quiz
C10_Witness ==
  /\ saves >= 1
  /\ isOpen
  /\ ~isComplete
  /\ questionIndex = 0
  /\ correctCount = 0
  /\ selectedIndex = NoSelection
  /\ status = "ready"
  /\ isQuizPayload(quiz)

\* a step in which handleNext invokes saveQuizResult
FinishCall ==
  /\ Len(flows') = Len(flows) + 1
  /\ flows'[Len(flows')].origin = "finish"

\* C11: the progression invokes saveQuizResult only at the step that sets
\* the completion flag, that step always invokes it, no call was made before
\* in the same cycle, and none is made while the flag stays true.
C11_SaveOncePerCycle ==
  [][ /\ FinishCall => (~isComplete /\ isComplete' /\ lastCall = None)
      /\ (~isComplete /\ isComplete') => (FinishCall /\ lastCall' # None)
      /\ (isComplete /\ isComplete') => (~FinishCall /\ lastCall' = lastCall)
    ]_vars

\* a reachable case of C11: a second cycle has been completed, the first
\* call of the run was made in the cycle before
C11_Witness ==
  /\ isComplete
  /\ lastCall # None
  /\ saves = 2
  /\ Len(flows) = 2

\* C12: the running correct count is the number of submitted questions of
\* this cycle that were answered correctly at submission; it changes only at
\* a submit step of a question not submitted before, or at the reset.
C12_CountMatchesSubmitted ==
  [][ /\ (correctCount' # correctCount /\ correctCount' # 0)
          => /\ ~showResult /\ showResult'
             /\ questionIndex' = questionIndex
             /\ Len(submitted) = questionIndex
             /\ correctCount' = correctCount + 1
             /\ IsCorrect(selectedIndex, currentQuestion[1])
      /\ correctCount' = NumCorrect(submitted')
      /\ Len(submitted') <= questionIndex' + 1 ]_vars

\* a reachable case of C12: two questions submitted, one of them correct,
\* the second one still on display
C12_Witness ==
  /\ Len(submitted) = 2
  /\ questionIndex = 1
  /\ correctCount = 1
  /\ showResult
  /\ ~isComplete

C14_StatusTransitions ==
  [][ status' # status
        => /\ << status, status' >> \in
                 { << "idle", "loading" >>, << "loading", "ready" >>,
                   << "loading", "error" >>, << "error", "loading" >> }
           /\ status' = "ready" => quiz' # None ]_vars

\* C15: the percentage handed to saveQuizResult is the integer p with
\* p - 1/2 <= 100 * score / total < p + 1/2 for the score and total of the
\* same call.
C15_PercentageIsRounded ==
  lastCall # None =>
    LET c == lastCall[1]
    IN /\ c.total > 0
       /\ 2 * c.percentage * c.total - c.total <= 200 * c.score
       /\ 200 * c.score < 2 * c.percentage * c.total + c.total

\* a reachable case of C15: 2 of 3 gives 67
C15_Witness ==
  /\ lastCall # None
  /\ lastCall[1].score = 2
  /\ lastCall[1].total = 3
  /\ lastCall[1].percentage = 67

\* C16: the effective question count is 5 for an absent, zero, negative or
\* non-numeric count, 10 for a count above 10, and the count itself for an
\* integer in 1..10.
C16_CountClamp ==
  prompt # None =>
    LET c == request[1].count
        n == prompt[1].questionCount
    IN /\ c.t \in {"absent", "null", "word", "true"} => n = 5
       /\ (c.t = "number" /\ c.v <= 0) => n = 5
       /\ (c.t = "huge" \/ (c.t = "number" /\ c.v > 100)) => n = 10
       /\ (c.t = "number" /\ c.v \in { 10 * k : k \in 1..10 })
            => n = c.v \div 10

\* C17: the question count embedded in the prompt is an integer in 1..10
\* whatever the count field holds.
C17_PromptCountInRange ==
  prompt # None => prompt[1].questionCount \in 1..10

\* C18: the text collectPageText produces, generateQuiz's pageText and the
\* content embedded in the prompt are each at most MAX_TEXT_LENGTH long.
C18_TextNeverExceedsLimit ==
  /\ message # None => message[1].payload.text.len <= MAX_TEXT_LENGTH
  /\ pageText # None => pageText[1] <= MAX_TEXT_LENGTH
  /\ prompt # None => prompt[1].content <= MAX_TEXT_LENGTH

\* a reachable case of C18: a text field of 20000 characters was cut to
\* the limit in the prompt
C18_Witness ==
  /\ prompt # None
  /\ prompt[1].content = MAX_TEXT_LENGTH
  /\ request[1].text.len = 20000

\* C19: every POST /api/quiz is answered with 200 and a body holding
\* questions and sourceUrl, or with 400 and a body holding an error string.
C19_AnswerIs200Or400 ==
  (response # None /\ caller \in {"direct", "background"}) =>
    \/ /\ response[1].status = 200
       /\ response[1].json
       /\ response[1].questions # None
       /\ response[1].sourceUrl
    \/ /\ response[1].status = 400
       /\ response[1].json
       /\ response[1].error # ""

\* C20: a quizler:generate message gets at most one response, exactly one
\* once its fetch has ended: { ok: true, data } when the answer was 2xx and
\* its JSON body was read, { ok: false, error } otherwise; a message of
\* another type gets no response and causes no backend call.
C20_OneResponsePerGenerate ==
  /\ Len(sent) <= 1
  /\ bgpc = "ignored"
       => /\ message[1].type # "quizler:generate"
          /\ sent = << >>
          /\ fetches = 0
  /\ bgpc \in {"fetch", "awaiting"}
       => /\ message[1].type = "quizler:generate"
          /\ sent = << >>
          /\ fetches = 1
  /\ bgpc = "responded"
       => /\ message[1].type = "quizler:generate"
          /\ Len(sent) = 1
          /\ fetches = 1
          /\ IF /\ fetched[1].kind = "http"
                /\ fetched[1].code \in 200..299
             THEN sent[1].ok /\ sent[1].data = fetched[1].body
             ELSE ~sent[1].ok /\ sent[1].error # ""

\* a reachable case of C20: the backend's quiz came back as { ok: true,
\* data } in the single response
C20_Witness ==
  /\ bgpc = "responded"
  /\ Len(sent) = 1
  /\ sent[1].ok
  /\ sent[1].data # None
  /\ response # None
  /\ response[1].status = 200

\* C21: the held payload is discarded whenever the widget is closed and
\* whenever a new quiz is requested.
C21_PayloadDiscarded ==
  [][ /\ closeWidget => quiz' = None
      /\ inFlight' = inFlight + 1 => quiz' = None ]_vars

\* C24: selecting an option sets the selection and leaves result-visibility,
\* correct count, question index and completion flag alone; while an answer
\* is not submitted another option can be selected; once the answer to a
\* question of a schema-valid payload is submitted the selection changes
\* only by being cleared at the next question or at a reset.
C24_SelectChangesOnlySelection ==
  [][ /\ \A i \in 0..3 :
           SelectOption(i)
             => /\ selectedIndex' = i
                /\ UNCHANGED << showResult, correctCount, questionIndex,
                                isComplete, quiz, status >>
      /\ (CanClick /\ QuestionShown /\ ~showResult)
           => \A i \in 0..3 : ENABLED SelectOption(i)
      /\ (showResult /\ quizSchema(quiz) /\ selectedIndex' # selectedIndex)
           => /\ selectedIndex' = NoSelection
              /\ ~showResult'
              /\ questionIndex' = questionIndex + 1 \/ questionIndex' = 0
    ]_vars

\* a reachable case of C24: the answer to the second question of a
\* schema-valid quiz is submitted and on display
C24_Witness ==
  /\ quizSchema(quiz)
  /\ questionIndex = 1
  /\ showResult
  /\ selectedIndex # NoSelection
  /\ QuestionShown

\* C25: at most one request is in flight; a request starts only from idle
\* or error and moves the status to loading; the status is loading exactly
\* while a request is in flight and leaves loading only when the response
\* arrives.
C25_OneRequestInFlight ==
  [][ /\ inFlight' \in {0, 1}
      /\ (status' = "loading") <=> (inFlight' = 1)
      /\ inFlight' > inFlight
           => (status \in {"idle", "error"} /\ status' = "loading")
      /\ (status = "loading" /\ status' # "loading")
           => inFlight' = inFlight - 1
      /\ (status = "loading" /\ (openWidget \/ closeWidget))
           => (inFlight' = inFlight /\ status' = "loading") ]_vars

\* a reachable case of C25: the widget was opened while the request is in
\* flight, and no second request was started
C25_Witness ==
  /\ status = "loading"
  /\ inFlight = 1
  /\ isOpen
  /\ error = None
  /\ subscribed # Unsubscribed

TupleInRange(t) ==
  /\ 0 <= t.score
  /\ t.score <= t.total
  /\ t.total >= 1
  /\ 0 <= t.percentage
  /\ t.percentage <= 100

\* C27: every tuple stored as the pending result or inserted into
\* quiz_results has 0 <= score <= total, total >= 1, 0 <= percentage <= 100.
C27_StoredTuplesInRange ==
  /\ pendingResult # None => TupleInRange(pendingResult[1])
  /\ \A r \in BagToSet(db) :
       TupleInRange([score |-> r.score, total |-> r.total_questions,
                     percentage |-> r.percentage])

\* C28: the score and percentage of the completion card are those that
\* were passed to saveQuizResult for the same completion.
C28_ShownScoreIsSavedScore ==
  (isComplete /\ lastCall # None) =>
    /\ lastCall[1].score = correctCount
    /\ lastCall[1].total = totalQuestions
    /\ lastCall[1].percentage = RoundPercent(correctCount, totalQuestions)

\* C29: while the completion card shows "Result saved", the result of the
\* completion on display is in quiz_results.
C29_SavedIndicatorIsCurrent ==
  (isComplete /\ resultSaved) =>
    /\ lastCall # None
    /\ InsertCount(lastCall[1].cid) >= 1

\* the request's text is absent, not a string, or blank after trimming
TextUnusable(x) == x.t # "string" \/ x.blank

\* C22: with an unusable text field generateQuiz falls back to
\* fetchPageText; when that yields empty text (fetch throws, non-2xx,
\* nothing left after stripping) the answer is the error "Unable to extract
\* page text" and generateObject is not called.
C22_FallbackAndEmptyText ==
  [][ /\ ( /\ srvpc = "idle"
           /\ srvpc' # "idle"
           /\ request' # None
           /\ request'[1].kind = "object"
           /\ request'[1].url = "string"
           /\ TextUnusable(request'[1].text) )
           => /\ srvpc' = "fetchPageText"
              /\ prompt' = None
              /\ response' = None
      /\ \A o \in PageFetches :
           (fetchPageTextSettle(o) /\ (o.kind # "html" \/ o.stripped = 0))
             => /\ response' # None
                /\ response'[1].status = 400
                /\ response'[1].error = "Unable to extract page text"
                /\ srvpc' = "answered"
                /\ prompt' = None
      /\ (response' # None /\ response'[1].error = "Unable to extract page text")
           => (prompt' = None /\ srvpc' # "generateObject") ]_vars

\* a reachable case of C22: a text of three whitespace characters, the
\* fallback fetch gave nothing, the error was returned
C22_Witness ==
  /\ request # None
  /\ request[1].text.t = "string"
  /\ request[1].text.len = 3
  /\ pageText = Some(0)
  /\ response # None
  /\ response[1].error = "Unable to extract page text"
  /\ prompt = None

\* C23: every response of the router carries Access-Control-Allow-Origin.
C23_EveryResponseHasCors ==
  response # None => response[1].cors

\* C30: opened with an OAuth callback, once the provider has handed a
\* session to the page and the page's getSession and verifyOtp have
\* settled, the page is not on the verifying screen.
C30_OAuthCallbackLeavesVerifying ==
  ( /\ openedWith.hash
    /\ reported
    /\ awaiting \cap {"getSession", "verifyOtp"} = {} )
    => ~verifying

====
